---- MODULE Spec2Model ----
(***************************************************************************)
(* go-watcher: the debounced file watcher and the supervisor of the one    *)
(* child process group, as of revision 0.1.2 (watcher.go, process.go,      *)
(* cmd.go, vars.go, util.go).                                              *)
(*                                                                         *)
(* Strings are sequences of one-character strings, so that the path and    *)
(* pattern functions (ToLower, filepath.Ext, joinPipe, regexp matching)    *)
(* are computed the way the code computes them.                            *)
(***************************************************************************)
EXTENDS Integers, Sequences, FiniteSets, TLC

(***************************************************************************)
(* Bounds of the model.                                                    *)
(***************************************************************************)
\* number of debounce timers the watch loop may arm in one run
MaxTimers == 2
\* last instant of the model clock
MaxTime == 4
\* ticks the tick loop receives in one run
MaxTicks == 2
\* terminated adopted grandchildren that await collection at one time
MaxOrphans == 2
\* quiet period of the debouncer, in clock units (the flag --delay)
Delay == 2

(***************************************************************************)
(* Strings.                                                                *)
(***************************************************************************)
UpperChars == <<"A","B","C","D","E","F","G","H","I","J","K","L","M",
                "N","O","P","Q","R","S","T","U","V","W","X","Y","Z">>
LowerChars == <<"a","b","c","d","e","f","g","h","i","j","k","l","m",
                "n","o","p","q","r","s","t","u","v","w","x","y","z">>

\* the lower-case letter of each upper-case letter
LowerOf == [c \in {UpperChars[i] : i \in 1..Len(UpperChars)} |->
              LowerChars[CHOOSE i \in 1..Len(UpperChars) : UpperChars[i] = c]]

\* strings.ToLower on one character
LowerChar(c) == IF c \in DOMAIN LowerOf THEN LowerOf[c] ELSE c

\* strings.ToLower
ToLower(s) == [i \in 1..Len(s) |-> LowerChar(s[i])]

\* strings.LastIndex(p, "/") + 1, scanning from the end as the library does
RECURSIVE LastSepFrom(_, _)
LastSepFrom(p, i) ==
    IF i = 0 THEN 0
    ELSE IF p[i] = "/" THEN i
    ELSE LastSepFrom(p, i - 1)

LastSep(p) == LastSepFrom(p, Len(p))

\* filepath.Ext: the suffix from the final dot of the final element of p;
\* the scan runs from the end and stops at a path separator
RECURSIVE ExtFrom(_, _)
ExtFrom(p, i) ==
    IF i = 0 \/ p[i] = "/" THEN <<>>
    ELSE IF p[i] = "." THEN SubSeq(p, i, Len(p))
    ELSE ExtFrom(p, i - 1)

Ext(p) == ExtFrom(p, Len(p))

\* filepath.Dir for the absolute, clean paths of the model
Dir(p) == IF LastSep(p) <= 1 THEN <<"/">> ELSE SubSeq(p, 1, LastSep(p) - 1)

\* strings.Join(v, sep)
RECURSIVE Join(_, _)
Join(v, sep) ==
    IF Len(v) = 0 THEN <<>>
    ELSE IF Len(v) = 1 THEN v[1]
    ELSE v[1] \o sep \o Join(Tail(v), sep)

\* strings.ReplaceAll(s, old, new) for one-character old and new
ReplaceAll(s, old, new) == [i \in 1..Len(s) |-> IF s[i] = old THEN new ELSE s[i]]

\* util.go joinPipe
joinPipe(v) == ReplaceAll(Join(v, <<"|">>), ",", "|")

(***************************************************************************)
(* Regular expressions: the patterns the flags hold are literals, the      *)
(* wildcard "." and the alternation "|".  A compiled expression is the     *)
(* sequence of its alternatives.                                           *)
(***************************************************************************)
\* the alternatives of a raw expression: the pieces between the "|"
RECURSIVE SplitPipe(_)
SplitPipe(raw) ==
    IF \E i \in 1..Len(raw) : raw[i] = "|"
    THEN LET k == CHOOSE i \in 1..Len(raw) :
                      raw[i] = "|" /\ \A j \in 1..(i-1) : raw[j] # "|"
         IN  <<SubSeq(raw, 1, k - 1)>> \o SplitPipe(SubSeq(raw, k + 1, Len(raw)))
    ELSE <<raw>>

\* a compiler under which an empty rule set matches nothing
CompileEmptyMatchesNothing(raw) == IF Len(raw) = 0 THEN <<>> ELSE SplitPipe(raw)

\* regexp.Compile: the empty expression is one empty alternative, which
\* matches every string
Compile(raw) == SplitPipe(raw)

\* one alternative matches s at offset i (0-based)
MatchAt(alt, s, i) ==
    /\ i + Len(alt) <= Len(s)
    /\ \A j \in 1..Len(alt) : alt[j] = "." \/ alt[j] = s[i + j]

\* (*regexp.Regexp).MatchString: an unanchored search
MatchString(re, s) ==
    \E a \in 1..Len(re) : \E i \in 0..Len(s) : MatchAt(re[a], s, i)

(***************************************************************************)
(* The file system the watcher runs on.  The working directory is /w.      *)
(***************************************************************************)
Root      == "/w"
DirSrc    == "/w/src"
DirGit    == "/w/.git"
DirSrcGit == "/w/src/.Git"
DirDoc    == "/w/doc"
DirPkg    == "/w/src/pkg"

FileMain  == "/w/src/main.go"
FileUpper == "/w/src/B.GO"
FileMd    == "/w/src/a.md"
FileGitX  == "/w/.git/x.go"
FileLegit == "/w/src/legit.go"
FilePkg   == "/w/src/pkg/p.go"

\* directories that exist when the watcher starts
Tree    == {Root, DirSrc, DirGit, DirSrcGit, DirDoc}
\* directories that may be created while it runs
NewDirs == {DirPkg}
\* regular files events may name
Files   == {FileMain, FileUpper, FileMd, FileGitX, FileLegit, FilePkg}

AllPaths == Tree \cup NewDirs \cup Files

\* the directories in the order filepath.WalkDir reaches them: a directory
\* before its entries, the entries in lexical order
WalkOrder == <<Root, DirGit, DirDoc, DirSrc, DirSrcGit, DirPkg>>
WalkPos   == [d \in Tree \cup NewDirs |-> CHOOSE i \in 1..Len(WalkOrder) : WalkOrder[i] = d]

\* no path: no registration fails
NoPath == ""

(***************************************************************************)
(* The values of the flags --exclusions, --inclusions and --extensions.    *)
(***************************************************************************)
PatGit     == ".git"
PatGitIdea == ".git,.idea"
PatSrc     == "src"
PatGo      == ".go"
PatEnv     == ".env"
PatDoc     == "doc"
PatGoMd    == ".go,.md"

ConfigGo ==
    [exclusions |-> <<PatGit>>, inclusions |-> <<>>, extensions |-> <<PatGo>>]

Configs == {
    ConfigGo,
    [exclusions |-> <<PatGitIdea>>, inclusions |-> <<PatSrc>>, extensions |-> <<PatGo, PatEnv>>],
    [exclusions |-> <<PatGit, PatDoc>>, inclusions |-> <<>>, extensions |-> <<PatGoMd>>] }

\* the subcommand "command": it has no rules, and compiles none
ConfigCommand ==
    [exclusions |-> <<>>, inclusions |-> <<>>, extensions |-> <<>>, command |-> TRUE]

\* the characters of each string of the model
Chars ==
       (Root :> <<"/","w">>)
    @@ (DirSrc :> <<"/","w","/","s","r","c">>)
    @@ (DirGit :> <<"/","w","/",".","g","i","t">>)
    @@ (DirSrcGit :> <<"/","w","/","s","r","c","/",".","G","i","t">>)
    @@ (DirDoc :> <<"/","w","/","d","o","c">>)
    @@ (DirPkg :> <<"/","w","/","s","r","c","/","p","k","g">>)
    @@ (FileMain :> <<"/","w","/","s","r","c","/","m","a","i","n",".","g","o">>)
    @@ (FileUpper :> <<"/","w","/","s","r","c","/","B",".","G","O">>)
    @@ (FileMd :> <<"/","w","/","s","r","c","/","a",".","m","d">>)
    @@ (FileGitX :> <<"/","w","/",".","g","i","t","/","x",".","g","o">>)
    @@ (FileLegit :> <<"/","w","/","s","r","c","/","l","e","g","i","t",".","g","o">>)
    @@ (FilePkg :> <<"/","w","/","s","r","c","/","p","k","g","/","p",".","g","o">>)
    @@ (PatGit :> <<".","g","i","t">>)
    @@ (PatGitIdea :> <<".","g","i","t",",",".","i","d","e","a">>)
    @@ (PatSrc :> <<"s","r","c">>)
    @@ (PatGo :> <<".","g","o">>)
    @@ (PatEnv :> <<".","e","n","v">>)
    @@ (PatDoc :> <<"d","o","c">>)
    @@ (PatGoMd :> <<".","g","o",",",".","m","d">>)

\* the path whose characters are s
PathOf(s) == CHOOSE p \in AllPaths \cup {"/"} : IF p = "/" THEN s = <<"/">> ELSE Chars[p] = s

\* filepath.Dir of each path of the model
ParentOf == [p \in AllPaths |-> PathOf(Dir(Chars[p]))]

\* p is path or lies below it
IsUnder(p, path) ==
    /\ Len(Chars[p]) >= Len(Chars[path])
    /\ SubSeq(Chars[p], 1, Len(Chars[path])) = Chars[path]
    /\ (Len(Chars[p]) = Len(Chars[path]) \/ Chars[p][Len(Chars[path]) + 1] = "/")

\* fsnotify.Op values an event may carry
OpCreate == "CREATE"
OpWrite  == "WRITE"
OpRemove == "REMOVE"
OpRename == "RENAME"
OpChmod  == "CHMOD"
\* Op is a bit mask: an event carries a set of the flags
EventOps == {{OpCreate}, {OpWrite}, {OpRemove}, {OpRename}, {OpChmod},
             {OpWrite, OpChmod}}

(***************************************************************************)
(* State.                                                                  *)
(***************************************************************************)
VARIABLES
    config,          \* the flag values the run was started with
    exclusionRegex,  \* vars.go: compiled --exclusions
    inclusionRegex,  \* vars.go: compiled --inclusions
    extensionRegex,  \* vars.go: compiled --extensions
    dirs,            \* the directories that exist under the working directory
    files,           \* the regular files the run's events may name
    watched,         \* the directories registered with the fsnotify watcher
    visited,         \* history: the directories walkDir has visited
    addFailed,       \* history: the directories whose watcher.Add failed
    cmd,             \* vars.go: the package variable cmd, 0 is nil
    cmds,            \* the exec.Cmd objects and the process of each
    nextCmd,         \* the next exec.Cmd object exec.Command returns
    pc,              \* the position of each goroutine
    recv,            \* the exec.Cmd a goroutine is blocked in Wait on
    timers,          \* the time.Timer objects time.AfterFunc returned
    debouncer,       \* runFileWatcher's local debouncer, 0 is nil
    nextTimer,       \* the next timer time.AfterFunc returns
    now,             \* the clock
    ctxDone,         \* the context has been cancelled
    panicked,        \* 0, or the line of process.go whose nil dereference
                     \* ended the program
    sigchld,         \* a SIGCHLD is buffered in the reaper's channel
    lastEvent,       \* history: the last event the loop received that was
                     \* not the event of a directory: its kind, whether it
                     \* armed the debouncer and, when it carries one of the
                     \* flags create, write or rename, its path
    burstFirst,      \* history: instant of the first event of the burst
    burstLast,       \* history: instant of the last event of the burst
    burstN,          \* history: qualifying events of the burst
    burstFires,      \* history: debounce callbacks invoked for the burst
    spawnFailures,   \* history: number of failed cmd.Start calls
    ticks,           \* the ticks runCommandWatcher has received from its ticker
    orphans,         \* terminated children of the program that are not the
                     \* process of an exec.Cmd (adopted grandchildren) and
                     \* have not been collected
    reaper,          \* the position of reapZombieProcess
    closed           \* the channels of the fsnotify watcher are closed

vars == <<config, exclusionRegex, inclusionRegex, extensionRegex, dirs,
          files, watched, visited, addFailed, cmd, cmds, nextCmd, pc, recv, timers, debouncer,
          nextTimer, now, ctxDone, panicked, sigchld, lastEvent, burstFirst,
          burstLast, burstN, burstFires, spawnFailures, ticks, orphans,
          reaper, closed>>

\* goroutine 0 runs runFileWatcher; goroutine t runs the callback of timer t
Loop       == 0
TimerIds   == 1..MaxTimers
Goroutines == {Loop} \cup TimerIds
\* one exec.Cmd per startProcess: the first run and one per timer
CmdIds     == 1..(MaxTimers + 1)

\* the lines of process.go that dereference cmd.Process
LineKill      == 55
LineKilledLog == 61
LineStartLog  == 85

(***************************************************************************)
(* PathFilter.                                                             *)
(***************************************************************************)
\* cmd.go parseRegexps: the flag's values are joined and compiled
parseRegexps(flag) == Compile(joinPipe([i \in 1..Len(flag) |-> Chars[flag[i]]]))

\* every expression a run may compile, and every string it may match
Regexps  == UNION {{parseRegexps(c.exclusions), parseRegexps(c.inclusions),
                    parseRegexps(c.extensions)} : c \in Configs}
Subjects == {ToLower(Chars[p]) : p \in AllPaths} \cup {ToLower(Ext(Chars[p])) : p \in AllPaths}

\* MatchString, tabulated
Match == [re \in Regexps, s \in Subjects |-> MatchString(re, s)]

\* strings.ToLower(path) and strings.ToLower(filepath.Ext(path)), tabulated
LowerPath == [p \in AllPaths |-> ToLower(Chars[p])]
LowerExt  == [p \in AllPaths |-> ToLower(Ext(Chars[p]))]

\* a directory admitted whatever the rules say
AdmitAll(path) == TRUE

\* walkDir's test: a directory is skipped when it does not match the
\* inclusions or matches the exclusions
Admit(path) ==
    ~(~Match[inclusionRegex, LowerPath[path]]
        \/ Match[exclusionRegex, LowerPath[path]])

\* a file actionable on its extension alone
ActionableByExtension(name) ==
    Match[extensionRegex, LowerExt[name]]

\* runFileWatcher's test of a file event's path
Actionable(name) ==
    ~(~Match[extensionRegex, LowerExt[name]]
        \/ Match[exclusionRegex, LowerPath[name]])

\* runFileWatcher's switch on event.Op
IsTriggerOp(op) == op = {OpCreate} \/ op = {OpWrite} \/ op = {OpRename}

\* the directories under path
Below(path) == {d \in dirs : IsUnder(d, path)}

\* watcher.Add fails at failAt during the walk of path: failAt is a
\* directory the walk reaches and admits
WalkFails(path, failAt) ==
    failAt # NoPath /\ failAt \in Below(path) /\ Admit(failAt)

\* the directories the callback of filepath.WalkDir is called for: all of
\* them, or those up to the one whose error ends the walk
WalkVisits(path, failAt) ==
    IF WalkFails(path, failAt)
    THEN {d \in Below(path) : WalkPos[d] <= WalkPos[failAt]}
    ELSE Below(path)

\* walkDir: the watched set after walking path
walkDir(path, W, failAt) ==
    W \cup {d \in WalkVisits(path, failAt) : Admit(d) /\ d # failAt}

(***************************************************************************)
(* Construction: cmd.go fileCmd.Before runs parseRegexps, then the Action  *)
(* starts runFileWatcher.                                                  *)
(***************************************************************************)
NoEvent == [path |-> "", armed |-> FALSE, kind |-> "none"]


\* an exec.Cmd that exec.Command has returned; since is history: the
\* debounce timer that was armed last when its process was started
NewCmd == [process |-> FALSE, waited |-> FALSE, os |-> "none", killSent |-> FALSE,
           since |-> 0]

\* the state in which runFileWatcher starts, run with the flags cfg in a
\* working directory that holds the directories ds and the files fs
Start(cfg, ds, fs) ==
    /\ config = cfg
    /\ exclusionRegex = parseRegexps(cfg.exclusions)
    /\ inclusionRegex = parseRegexps(cfg.inclusions)
    /\ extensionRegex = parseRegexps(cfg.extensions)
    /\ dirs = ds
    /\ files = fs
    /\ watched = {}
    /\ visited = {}
    /\ addFailed = {}
    /\ cmd = 0
    /\ cmds = [c \in CmdIds |-> NewCmd]
    /\ nextCmd = 1
    /\ pc = [g \in Goroutines |-> IF g = Loop THEN "walk" ELSE "idle"]
    /\ recv = [g \in Goroutines |-> 0]
    /\ timers = [t \in TimerIds |-> [st |-> "unused", deadline |-> 0]]
    /\ debouncer = 0
    /\ nextTimer = 1
    /\ now = 0
    /\ ctxDone = FALSE
    /\ panicked = 0
    /\ sigchld = FALSE
    /\ lastEvent = NoEvent
    /\ burstFirst = 0
    /\ burstLast = 0
    /\ burstN = 0
    /\ burstFires = 0
    /\ spawnFailures = 0
    /\ ticks = 0
    /\ orphans = 0
    /\ reaper = "waiting"
    /\ closed = FALSE

\* a run with one exclusion and one extension in a small working directory
Init == Start(ConfigGo, {Root, DirSrc, DirGit}, {FileMain})

\* a run with any of the rule sets of several values in the whole working
\* directory
InitRules == \E cfg \in Configs \ {ConfigGo} : Start(cfg, Tree, Files)

\* cmd.go commandCmd: the state in which runCommandWatcher starts; Before
\* is validateArgs alone, the rules stay nil and nothing is walked
InitCommand ==
    /\ config = ConfigCommand
    /\ exclusionRegex = <<>>
    /\ inclusionRegex = <<>>
    /\ extensionRegex = <<>>
    /\ dirs = {}
    /\ files = {}
    /\ watched = {}
    /\ visited = {}
    /\ addFailed = {}
    /\ cmd = 0
    /\ cmds = [c \in CmdIds |-> NewCmd]
    /\ nextCmd = 1
    /\ pc = [g \in Goroutines |-> IF g = Loop THEN "kp_check" ELSE "idle"]
    /\ recv = [g \in Goroutines |-> 0]
    /\ timers = [t \in TimerIds |-> [st |-> "unused", deadline |-> 0]]
    /\ debouncer = 0
    /\ nextTimer = 1
    /\ now = 0
    /\ ctxDone = FALSE
    /\ panicked = 0
    /\ sigchld = FALSE
    /\ lastEvent = NoEvent
    /\ burstFirst = 0
    /\ burstLast = 0
    /\ burstN = 0
    /\ burstFires = 0
    /\ spawnFailures = 0
    /\ ticks = 0
    /\ orphans = 0
    /\ reaper = "waiting"
    /\ closed = FALSE

(***************************************************************************)
(* process.go: killProcess and startProcess, one step per statement that   *)
(* reads or writes the package variable cmd.  No lock guards them: the     *)
(* steps of the goroutines interleave.                                     *)
(***************************************************************************)
\* the program runs: no panic has ended it and log.Fatal has not exited
Alive == panicked = 0 /\ pc[Loop] # "fatal"

StartLabels == {"kp_check", "kp_kill", "kp_wait", "kp_waiting", "kp_log",
                "sp_new", "sp_start", "sp_log"}

\* where a goroutine goes when startProcess returns
AfterStart(g) ==
    IF g # Loop THEN "done"
    ELSE IF config = ConfigCommand THEN "tick_select" ELSE "select"

\* process.go 53: if cmd != nil
KillCheck(g) ==
    /\ Alive /\ pc[g] = "kp_check"
    /\ pc' = [pc EXCEPT ![g] = IF cmd # 0 THEN "kp_kill" ELSE "sp_new"]
    /\ UNCHANGED <<config, exclusionRegex, inclusionRegex, extensionRegex, ticks,
                   orphans, reaper, closed,
                   dirs, files, watched, visited, addFailed, cmd, cmds, nextCmd, recv, timers,
                   debouncer, nextTimer, now, ctxDone, panicked, sigchld,
                   lastEvent, burstFirst, burstLast, burstN, burstFires,
                   spawnFailures>>

\* process.go 55: syscall.Kill(-cmd.Process.Pid, SIGKILL); every process of
\* the group dies.  cmd.Process is nil while cmd has not been started.
KillGroup(g) ==
    /\ Alive /\ pc[g] = "kp_kill"
    /\ IF ~cmds[cmd].process
       THEN /\ panicked' = LineKill
            /\ UNCHANGED <<cmds, sigchld, pc>>
       ELSE /\ cmds' = [cmds EXCEPT ![cmd].os = IF @ = "running" THEN "zombie" ELSE @,
                                    ![cmd].killSent = TRUE]
            /\ sigchld' = (sigchld \/ cmds[cmd].os = "running")
            /\ pc' = [pc EXCEPT ![g] = "kp_wait"]
            /\ UNCHANGED panicked
    /\ UNCHANGED <<config, exclusionRegex, inclusionRegex, extensionRegex, ticks,
                   orphans, reaper, closed,
                   dirs, files, watched, visited, addFailed, cmd, nextCmd, recv, timers,
                   debouncer, nextTimer, now, ctxDone, lastEvent, burstFirst,
                   burstLast, burstN, burstFires, spawnFailures>>

\* process.go 58: cmd.Wait() is called on the object cmd holds now
WaitCall(g) ==
    /\ Alive /\ pc[g] = "kp_wait"
    /\ recv' = [recv EXCEPT ![g] = cmd]
    /\ pc' = [pc EXCEPT ![g] = "kp_waiting"]
    /\ UNCHANGED <<config, exclusionRegex, inclusionRegex, extensionRegex, ticks,
                   orphans, reaper, closed,
                   dirs, files, watched, visited, addFailed, cmd, cmds, nextCmd, timers,
                   debouncer, nextTimer, now, ctxDone, panicked, sigchld,
                   lastEvent, burstFirst, burstLast, burstN, burstFires,
                   spawnFailures>>

\* (*exec.Cmd).Wait: an error at once when the command was not started, was
\* waited for already or its exit was collected by someone else; otherwise
\* it blocks until the process has exited and collects the exit
WaitReturn(g) ==
    /\ Alive /\ pc[g] = "kp_waiting"
    /\ LET c == recv[g] IN
       /\ cmds[c].process /\ ~cmds[c].waited => cmds[c].os # "running"
       /\ cmds' = IF cmds[c].process /\ ~cmds[c].waited /\ cmds[c].os = "zombie"
                  THEN [cmds EXCEPT ![c].os = "reaped", ![c].waited = TRUE]
                  ELSE cmds
    /\ recv' = [recv EXCEPT ![g] = 0]
    /\ pc' = [pc EXCEPT ![g] = "kp_log"]
    /\ UNCHANGED <<config, exclusionRegex, inclusionRegex, extensionRegex, ticks,
                   orphans, reaper, closed,
                   dirs, files, watched, visited, addFailed, cmd, nextCmd, timers, debouncer,
                   nextTimer, now, ctxDone, panicked, sigchld, lastEvent,
                   burstFirst, burstLast, burstN, burstFires, spawnFailures>>

\* process.go 61: log "killed (%d)" with cmd.Process.Pid
KilledLog(g) ==
    /\ Alive /\ pc[g] = "kp_log"
    /\ IF ~cmds[cmd].process
       THEN panicked' = LineKilledLog /\ UNCHANGED pc
       ELSE pc' = [pc EXCEPT ![g] = "sp_new"] /\ UNCHANGED panicked
    /\ UNCHANGED <<config, exclusionRegex, inclusionRegex, extensionRegex, ticks,
                   orphans, reaper, closed,
                   dirs, files, watched, visited, addFailed, cmd, cmds, nextCmd, recv, timers,
                   debouncer, nextTimer, now, ctxDone, sigchld, lastEvent,
                   burstFirst, burstLast, burstN, burstFires, spawnFailures>>

\* process.go 70-76: readEnvs, then cmd = exec.Command(name, args...)
NewCommand(g) ==
    /\ Alive /\ pc[g] = "sp_new"
    /\ nextCmd \in CmdIds
    /\ cmd' = nextCmd
    /\ nextCmd' = nextCmd + 1
    /\ pc' = [pc EXCEPT ![g] = "sp_start"]
    /\ UNCHANGED <<config, exclusionRegex, inclusionRegex, extensionRegex, ticks,
                   orphans, reaper, closed,
                   dirs, files, watched, visited, addFailed, cmds, recv, timers, debouncer,
                   nextTimer, now, ctxDone, panicked, sigchld, lastEvent,
                   burstFirst, burstLast, burstN, burstFires, spawnFailures>>

\* process.go 77-84: cmd.Start() on the object cmd holds now; the error of
\* a failed spawn is logged and nothing else is done about it
StartCommand(g) ==
    /\ Alive /\ pc[g] = "sp_start"
    /\ IF cmds[cmd].process
       THEN UNCHANGED <<cmds, spawnFailures>>
       ELSE \E ok \in BOOLEAN :
              IF ok
              THEN /\ cmds' = [cmds EXCEPT ![cmd].process = TRUE, ![cmd].os = "running",
                                            ![cmd].since = debouncer]
                   /\ UNCHANGED spawnFailures
              ELSE /\ spawnFailures' = spawnFailures + 1
                   /\ UNCHANGED cmds
    /\ pc' = [pc EXCEPT ![g] = "sp_log"]
    /\ UNCHANGED <<config, exclusionRegex, inclusionRegex, extensionRegex, ticks,
                   orphans, reaper, closed,
                   dirs, files, watched, visited, addFailed, cmd, nextCmd, recv, timers,
                   debouncer, nextTimer, now, ctxDone, panicked, sigchld,
                   lastEvent, burstFirst, burstLast, burstN, burstFires>>

\* process.go 85: log "started (%d)" with cmd.Process.Pid
StartedLog(g) ==
    /\ Alive /\ pc[g] = "sp_log"
    /\ IF ~cmds[cmd].process
       THEN panicked' = LineStartLog /\ UNCHANGED pc
       ELSE pc' = [pc EXCEPT ![g] = AfterStart(g)] /\ UNCHANGED panicked
    /\ UNCHANGED <<config, exclusionRegex, inclusionRegex, extensionRegex, ticks,
                   orphans, reaper, closed,
                   dirs, files, watched, visited, addFailed, cmd, cmds, nextCmd, recv, timers,
                   debouncer, nextTimer, now, ctxDone, sigchld, lastEvent,
                   burstFirst, burstLast, burstN, burstFires, spawnFailures>>

(***************************************************************************)
(* The child processes and the zombie reaper.                              *)
(***************************************************************************)
\* a child exits on its own
ChildExit(c) ==
    /\ Alive /\ cmds[c].os = "running"
    /\ cmds' = [cmds EXCEPT ![c].os = "zombie"]
    /\ sigchld' = TRUE
    /\ UNCHANGED <<config, exclusionRegex, inclusionRegex, extensionRegex, ticks,
                   orphans, reaper, closed,
                   dirs, files, watched, visited, addFailed, cmd, nextCmd, pc, recv, timers,
                   debouncer, nextTimer, now, ctxDone, panicked, lastEvent,
                   burstFirst, burstLast, burstN, burstFires, spawnFailures>>

\* the terminated children of the program that nobody has collected
Zombies == {c \in CmdIds : cmds[c].os = "zombie"}

\* a reaper that gives up at an error of Wait4
AfterReapReturnOnError(outcome) == IF outcome = "error" THEN "exited" ELSE "waiting"

\* process.go 41-49: after Wait4 the loop takes the next signal, whatever
\* the outcome: a child collected, no terminated child (pid 0), no child at
\* all (ECHILD, not logged) or another error (logged); nothing returns
AfterReap(outcome) == "waiting"

\* process.go 39-49: one SIGCHLD is taken from the channel, which buffers
\* one signal, and one Wait4(-1, WNOHANG) collects one terminated child,
\* whichever it is; with none to collect it returns pid 0, ECHILD or
\* another error
reapZombieProcess ==
    /\ Alive /\ reaper = "waiting" /\ sigchld
    /\ sigchld' = FALSE
    /\ IF Zombies # {} \/ orphans > 0
       THEN /\ reaper' = AfterReap("collected")
            /\ \/ \E c \in Zombies :
                    /\ cmds' = [cmds EXCEPT ![c].os = "reaped"]
                    /\ UNCHANGED orphans
               \/ /\ orphans > 0
                  /\ orphans' = orphans - 1
                  /\ UNCHANGED cmds
       ELSE /\ \E outcome \in {IF \E c \in CmdIds : cmds[c].os = "running"
                                THEN "none" ELSE "echild", "error"} :
                 reaper' = AfterReap(outcome)
            /\ UNCHANGED <<cmds, orphans>>
    /\ UNCHANGED <<config, exclusionRegex, inclusionRegex, extensionRegex, ticks,
                   closed,
                   dirs, files, watched, visited, addFailed, cmd, nextCmd, pc, recv, timers,
                   debouncer, nextTimer, now, ctxDone, panicked, lastEvent,
                   burstFirst, burstLast, burstN, burstFires, spawnFailures>>

\* a child of the program that is not the process of an exec.Cmd (a
\* grandchild it has adopted) terminates
OrphanExit ==
    /\ Alive /\ orphans < MaxOrphans
    /\ orphans' = orphans + 1
    /\ sigchld' = TRUE
    /\ UNCHANGED <<config, exclusionRegex, inclusionRegex, extensionRegex, ticks,
                   reaper, closed,
                   dirs, files, watched, visited, addFailed, cmd, cmds, nextCmd, pc, recv,
                   timers, debouncer, nextTimer, now, ctxDone, panicked, lastEvent,
                   burstFirst, burstLast, burstN, burstFires, spawnFailures>>

(***************************************************************************)
(* The debouncer: time.Timer objects.                                      *)
(***************************************************************************)
\* a debouncer that never stops the timer it replaces
StopNothing(T, t) == T

\* (*time.Timer).Stop on the timer t, 0 is the nil debouncer: a timer that
\* has not fired will not fire; one that has fired is not affected
StopTimer(T, t) ==
    IF t # 0 /\ T[t].st = "pending" THEN [T EXCEPT ![t].st = "stopped"] ELSE T

\* a timer that expires at once, whatever the duration
AfterFuncAtOnce(T, t, d) == [T EXCEPT ![t] = [st |-> "pending", deadline |-> now]]

\* time.AfterFunc(d, f) as timer t
AfterFunc(T, t, d) == [T EXCEPT ![t] = [st |-> "pending", deadline |-> now + d]]

\* the runtime runs the callback of an expired timer in its own goroutine:
\* watcher.go 273-275, startProcess(ctx, name, args...)
TimerFire(t) ==
    /\ Alive
    /\ timers[t].st = "pending" /\ timers[t].deadline <= now
    /\ timers' = [timers EXCEPT ![t].st = "fired"]
    /\ pc' = [pc EXCEPT ![t] = "kp_check"]
    /\ burstFires' = burstFires + 1
    /\ UNCHANGED <<config, exclusionRegex, inclusionRegex, extensionRegex, ticks,
                   orphans, reaper, closed,
                   dirs, files, watched, visited, addFailed, cmd, cmds, nextCmd, recv,
                   debouncer, nextTimer, now, ctxDone, panicked, sigchld,
                   lastEvent, burstFirst, burstLast, burstN, spawnFailures>>

\* the clock advances; an expired timer fires before it does
Tick ==
    /\ Alive
    /\ now < MaxTime
    /\ \A t \in TimerIds : timers[t].st = "pending" => timers[t].deadline > now
    /\ now' = now + 1
    /\ UNCHANGED <<config, exclusionRegex, inclusionRegex, extensionRegex, ticks,
                   orphans, reaper, closed,
                   dirs, files, watched, visited, addFailed, cmd, cmds, nextCmd, pc, recv,
                   timers, debouncer, nextTimer, ctxDone, panicked, sigchld,
                   lastEvent, burstFirst, burstLast, burstN, burstFires,
                   spawnFailures>>

(***************************************************************************)
(* watcher.go: runFileWatcher.                                             *)
(***************************************************************************)
\* watcher.go 231-236: the first walk, from the working directory; its
\* error is fatal, otherwise the first startProcess follows
InitialWalk(failAt) ==
    /\ Alive /\ pc[Loop] = "walk"
    /\ failAt = NoPath \/ WalkFails(Root, failAt)
    /\ watched' = walkDir(Root, watched, failAt)
    /\ visited' = visited \cup WalkVisits(Root, failAt)
    /\ addFailed' = IF failAt = NoPath THEN addFailed ELSE addFailed \cup {failAt}
    /\ pc' = [pc EXCEPT ![Loop] = IF failAt = NoPath THEN "kp_check" ELSE "fatal"]
    /\ UNCHANGED <<config, exclusionRegex, inclusionRegex, extensionRegex, ticks,
                   orphans, reaper, closed,
                   dirs, files, cmd, cmds, nextCmd, recv, timers, debouncer,
                   nextTimer, now, ctxDone, panicked, sigchld, lastEvent,
                   burstFirst, burstLast, burstN, burstFires, spawnFailures>>

\* watcher.go 241-242: case <-ctx.Done(): return
LoopCancelled ==
    /\ Alive /\ pc[Loop] = "select"
    /\ ctxDone
    /\ pc' = [pc EXCEPT ![Loop] = "returned"]
    /\ UNCHANGED <<config, exclusionRegex, inclusionRegex, extensionRegex, ticks,
                   orphans, reaper, closed,
                   dirs, files, watched, visited, addFailed, cmd, cmds, nextCmd, recv, timers,
                   debouncer, nextTimer, now, ctxDone, panicked, sigchld,
                   lastEvent, burstFirst, burstLast, burstN, burstFires,
                   spawnFailures>>

\* the watcher reports events of the entries of the registered directories
IsReported(path) == ParentOf[path] \in watched
Reported == {path \in files \cup dirs \cup NewDirs : IsReported(path)}

\* what os.Stat may tell of the path of an event: a file may have vanished
\* since the event, a directory is there or is not
StatResults(path) == IF path \in files THEN BOOLEAN ELSE {path \in dirs}

\* the directory whose registration may fail in the walk an event starts
AddFailures(path) == IF path \in dirs THEN {NoPath} \cup NewDirs ELSE {NoPath}

\* an event that arms although os.Stat has failed
IsArmingIgnoringStat(path, op, exists) ==
    path \notin dirs /\ IsTriggerOp(op) /\ Actionable(path)

\* watcher.go 248-269: the event reaches the debouncer when os.Stat
\* succeeds, the path is no directory, it passes the test of the extension
\* and the exclusions, and event.Op is one of the three values
IsArming(path, op, exists) ==
    exists /\ path \notin dirs /\ IsTriggerOp(op) /\ Actionable(path)

\* the kind of an event, as the history records it: "vanished" when os.Stat
\* fails, "dir" for a directory, "trigger" when event.Op is create, write or
\* rename, "mixed" when it carries one of these flags and others, "other"
\* when it carries none of them
EventKind(path, op, exists) ==
    IF ~exists THEN "vanished"
    ELSE IF path \in dirs THEN "dir"
    ELSE IF IsTriggerOp(op) THEN "trigger"
    ELSE IF op \cap {OpCreate, OpWrite, OpRename} # {} THEN "mixed"
    ELSE "other"

\* watcher.go 243-275: case event := <-watcher.Events, for the event of
\* path with flags op; exists tells whether a file is still there at
\* os.Stat, failAt the directory whose registration fails in walkDir
HandleEvent(path, op, exists, failAt) ==
    /\ Alive /\ pc[Loop] = "select"
    /\ IsReported(path)
    /\ path \notin files => exists = (path \in dirs)
    /\ path \notin dirs => failAt = NoPath
    /\ LET isDir  == path \in dirs
           arming == IsArming(path, op, exists)
           joins  == debouncer # 0 /\ timers[debouncer].st = "pending"
           kind   == EventKind(path, op, exists)
       IN
       /\ arming => nextTimer \in TimerIds
       /\ IF exists /\ isDir
          THEN /\ failAt = NoPath \/ WalkFails(path, failAt)
               /\ watched' = walkDir(path, watched, failAt)
               /\ visited' = visited \cup WalkVisits(path, failAt)
               /\ addFailed' = IF failAt = NoPath THEN addFailed
                                ELSE addFailed \cup {failAt}
          ELSE /\ failAt = NoPath
               /\ UNCHANGED <<watched, visited, addFailed>>
       /\ IF arming
          THEN /\ timers' = AfterFunc(StopTimer(timers, debouncer), nextTimer, Delay)
               /\ debouncer' = nextTimer
               /\ nextTimer' = nextTimer + 1
               /\ burstFirst' = IF joins THEN burstFirst ELSE now
               /\ burstLast' = now
               /\ burstN' = IF joins THEN burstN + 1 ELSE 1
               /\ burstFires' = IF joins THEN burstFires ELSE 0
          ELSE UNCHANGED <<timers, debouncer, nextTimer, burstFirst, burstLast,
                           burstN, burstFires>>
       /\ lastEvent' = IF kind = "dir" THEN lastEvent
                        ELSE [path  |-> IF kind \in {"trigger", "mixed"} THEN path ELSE "",
                              armed |-> nextTimer' # nextTimer,
                              kind  |-> kind]
    /\ UNCHANGED <<config, exclusionRegex, inclusionRegex, extensionRegex, ticks,
                   orphans, reaper, closed,
                   dirs, files, cmd, cmds, nextCmd, pc, recv, now, ctxDone,
                   panicked, sigchld, spawnFailures>>

\* a loop that gives up at an error of the watcher
HandleErrorReturns ==
    /\ Alive /\ pc[Loop] = "select"
    /\ pc' = [pc EXCEPT ![Loop] = "returned"]
    /\ UNCHANGED <<config, exclusionRegex, inclusionRegex, extensionRegex, ticks,
                   orphans, reaper, closed,
                   dirs, files, watched, visited, addFailed, cmd, cmds, nextCmd, recv, timers,
                   debouncer, nextTimer, now, ctxDone, panicked, sigchld,
                   lastEvent, burstFirst, burstLast, burstN, burstFires,
                   spawnFailures>>

\* watcher.go 276-281: an error of the watcher is logged
HandleError ==
    /\ Alive /\ pc[Loop] = "select"
    /\ UNCHANGED vars

\* watcher.go 243-247: the channel of events is closed: return
EventsClosed ==
    /\ Alive /\ pc[Loop] = "select"
    /\ closed' = TRUE
    /\ pc' = [pc EXCEPT ![Loop] = "returned"]
    /\ UNCHANGED <<config, exclusionRegex, inclusionRegex, extensionRegex, ticks,
                   orphans, reaper,
                   dirs, files, watched, visited, addFailed, cmd, cmds, nextCmd, recv, timers,
                   debouncer, nextTimer, now, ctxDone, panicked, sigchld,
                   lastEvent, burstFirst, burstLast, burstN, burstFires,
                   spawnFailures>>

\* watcher.go 276-280: the channel of errors is closed: return
ErrorsClosed ==
    /\ Alive /\ pc[Loop] = "select"
    /\ closed' = TRUE
    /\ pc' = [pc EXCEPT ![Loop] = "returned"]
    /\ UNCHANGED <<config, exclusionRegex, inclusionRegex, extensionRegex, ticks,
                   orphans, reaper,
                   dirs, files, watched, visited, addFailed, cmd, cmds, nextCmd, recv, timers,
                   debouncer, nextTimer, now, ctxDone, panicked, sigchld,
                   lastEvent, burstFirst, burstLast, burstN, burstFires,
                   spawnFailures>>

(***************************************************************************)
(* The environment: the operator and the file system.                      *)
(***************************************************************************)
\* process.go 88-95: killSignal receives the interrupt and cancels the
\* context
killSignal ==
    /\ Alive /\ ~ctxDone
    /\ ctxDone' = TRUE
    /\ UNCHANGED <<config, exclusionRegex, inclusionRegex, extensionRegex, ticks,
                   orphans, reaper, closed,
                   dirs, files, watched, visited, addFailed, cmd, cmds, nextCmd, pc, recv,
                   timers, debouncer, nextTimer, now, panicked, sigchld,
                   lastEvent, burstFirst, burstLast, burstN, burstFires,
                   spawnFailures>>

\* a directory is created below an existing one
Mkdir(d) ==
    /\ Alive
    /\ d \in NewDirs \ dirs
    /\ ParentOf[d] \in dirs
    /\ dirs' = dirs \cup {d}
    /\ UNCHANGED <<config, exclusionRegex, inclusionRegex, extensionRegex, ticks,
                   orphans, reaper, closed,
                   files, watched, visited, addFailed, cmd, cmds, nextCmd, pc, recv, timers,
                   debouncer, nextTimer, now, ctxDone, panicked, sigchld,
                   lastEvent, burstFirst, burstLast, burstN, burstFires,
                   spawnFailures>>

(***************************************************************************)
(* watcher.go: runCommandWatcher.  Its first startProcess is the one of    *)
(* goroutine 0, from "kp_check".                                           *)
(***************************************************************************)
\* watcher.go 314-316: case <-ticker.C; the ticker drops the ticks the loop
\* is not ready for.  cmd is not nil after the first startProcess, and
\* cmd.Wait() is called on it
ReceiveTick ==
    /\ Alive /\ pc[Loop] = "tick_select"
    /\ ticks < MaxTicks
    /\ ticks' = ticks + 1
    /\ recv' = [recv EXCEPT ![Loop] = cmd]
    /\ pc' = [pc EXCEPT ![Loop] = IF cmd # 0 THEN "tw_waiting" ELSE "kp_check"]
    /\ UNCHANGED <<config, exclusionRegex, inclusionRegex, extensionRegex,
                   orphans, reaper, closed,
                   dirs, files, watched, visited, addFailed, cmd, cmds, nextCmd, timers,
                   debouncer, nextTimer, now, ctxDone, panicked, sigchld,
                   lastEvent, burstFirst, burstLast, burstN, burstFires,
                   spawnFailures>>

\* watcher.go 316-320: cmd.Wait() returns, as in WaitReturn: it blocks while
\* the child runs; its error is logged and startProcess follows
TickWaitReturn ==
    /\ Alive /\ pc[Loop] = "tw_waiting"
    /\ LET c == recv[Loop] IN
       /\ cmds[c].process /\ ~cmds[c].waited => cmds[c].os # "running"
       /\ cmds' = IF cmds[c].process /\ ~cmds[c].waited /\ cmds[c].os = "zombie"
                  THEN [cmds EXCEPT ![c].os = "reaped", ![c].waited = TRUE]
                  ELSE cmds
    /\ recv' = [recv EXCEPT ![Loop] = 0]
    /\ pc' = [pc EXCEPT ![Loop] = "kp_check"]
    /\ UNCHANGED <<config, exclusionRegex, inclusionRegex, extensionRegex, ticks,
                   orphans, reaper, closed,
                   dirs, files, watched, visited, addFailed, cmd, nextCmd, timers, debouncer,
                   nextTimer, now, ctxDone, panicked, sigchld, lastEvent,
                   burstFirst, burstLast, burstN, burstFires, spawnFailures>>

\* watcher.go 312-313: case <-ctx.Done(): return
TickCancelled ==
    /\ Alive /\ pc[Loop] = "tick_select"
    /\ ctxDone
    /\ pc' = [pc EXCEPT ![Loop] = "returned"]
    /\ UNCHANGED <<config, exclusionRegex, inclusionRegex, extensionRegex, ticks,
                   orphans, reaper, closed,
                   dirs, files, watched, visited, addFailed, cmd, cmds, nextCmd, recv, timers,
                   debouncer, nextTimer, now, ctxDone, panicked, sigchld,
                   lastEvent, burstFirst, burstLast, burstN, burstFires,
                   spawnFailures>>

StartStep(g) ==
    \/ KillCheck(g)
    \/ KillGroup(g)
    \/ WaitCall(g)
    \/ WaitReturn(g)
    \/ KilledLog(g)
    \/ NewCommand(g)
    \/ StartCommand(g)
    \/ StartedLog(g)

Next ==
    \/ \E failAt \in {NoPath} \cup Tree : InitialWalk(failAt)
    \/ \E g \in Goroutines : StartStep(g)
    \/ \E t \in TimerIds : TimerFire(t)
    \/ Tick
    \/ \E path \in Reported, op \in EventOps :
         \E exists \in StatResults(path), failAt \in AddFailures(path) :
           HandleEvent(path, op, exists, failAt)
    \/ HandleError
    \/ LoopCancelled
    \/ killSignal
    \/ \E d \in NewDirs : Mkdir(d)
    \/ \E c \in CmdIds : ChildExit(c)
    \/ reapZombieProcess

Spec == Init /\ [][Next]_vars

\* The program under the scheduling Go gives it: a goroutine inside
\* startProcess is run when it can take a step, as is the reaper, an
\* expired timer fires and the clock goes on.  Nothing makes an event
\* arrive, a child exit on its own or the operator interrupt.
SpecFair ==
    /\ Spec
    /\ \A g \in Goroutines : WF_vars(StartStep(g))
    /\ WF_vars(\E t \in TimerIds : TimerFire(t))
    /\ WF_vars(Tick)
    /\ WF_vars(reapZombieProcess)

\* The watch loop while it runs: its first startProcess, its events and
\* errors, the file system and the clock.  The timers it arms expire, and
\* what their callbacks then do is followed under Spec: nothing of it is
\* read by the path filter, the walk or the debouncer.
NextWatch ==
    \/ \E failAt \in {NoPath} \cup Tree : InitialWalk(failAt)
    \/ KillCheck(Loop)
    \/ NewCommand(Loop)
    \/ StartCommand(Loop)
    \/ StartedLog(Loop)
    \/ \E t \in TimerIds : TimerFire(t)
    \/ Tick
    \/ \E path \in Reported, op \in EventOps :
         \E exists \in StatResults(path), failAt \in AddFailures(path) :
           HandleEvent(path, op, exists, failAt)
    \/ HandleError
    \/ \E d \in NewDirs : Mkdir(d)

SpecWatch == InitRules /\ [][NextWatch]_vars

\* The watch loop and the ways it ends: the cancellation and the closed
\* channels of the watcher.
NextStop ==
    \/ NextWatch
    \/ EventsClosed
    \/ ErrorsClosed
    \/ LoopCancelled
    \/ killSignal

SpecStop == Init /\ [][NextStop]_vars

\* The subcommand "command": the tick loop, the children, the adopted
\* grandchildren and the reaper.
NextTick ==
    \/ StartStep(Loop)
    \/ ReceiveTick
    \/ TickWaitReturn
    \/ TickCancelled
    \/ killSignal
    \/ \E c \in CmdIds : ChildExit(c)
    \/ OrphanExit
    \/ reapZombieProcess

SpecTick == InitCommand /\ [][NextTick]_vars

\* The tick loop under the scheduling Go gives it: its goroutine and the
\* reaper's are run when they can take a step, and a select that is reached
\* again and again with the cancellation ready takes that case in the end.
\* Nothing makes a child exit, a grandchild terminate, a tick arrive or the
\* operator interrupt.
SpecTickFair ==
    /\ SpecTick
    /\ WF_vars(StartStep(Loop) \/ TickWaitReturn)
    /\ SF_vars(TickCancelled)
    /\ WF_vars(reapZombieProcess)

(***************************************************************************)
(* The properties.                                                         *)
(***************************************************************************)
\* the matchers of the rules on a path, as the specification names them
IncludeMatch(p)   == MatchString(inclusionRegex, ToLower(Chars[p]))
ExcludeMatch(p)   == MatchString(exclusionRegex, ToLower(Chars[p]))
ExtensionMatch(p) == MatchString(extensionRegex, ToLower(Ext(Chars[p])))

Running      == {c \in CmdIds : cmds[c].os = "running"}
Restarting   == {g \in Goroutines : pc[g] \in StartLabels}
PendingTimer == \E t \in TimerIds : timers[t].st = "pending"
Started      == {c \in CmdIds : cmds[c].process}

\* C1: at most one child process group started by the supervisor is alive.
AtMostOneChild == Cardinality(Running) <= 1

\* C2: a child is spawned only after every earlier child has been sent the
\* kill signal and its exit has been collected: at most one started child
\* is not yet both killed and collected.
RestartOrdering ==
    Cardinality({c \in CmdIds : cmds[c].process
                    /\ ~(cmds[c].killSent /\ cmds[c].os = "reaped")}) <= 1

\* C3: the qualifying events of a burst that all arrive within a window
\* shorter than the quiet period cause exactly one call of the debounce
\* callback: none while the timer is pending, one once it has expired.
DebounceOnce ==
    (burstN >= 1 /\ burstLast - burstFirst < Delay)
        => burstFires = (IF PendingTimer THEN 0 ELSE 1)

\* a burst of several events at different instants has caused its one restart
DebounceOnceWitness ==
    /\ burstN >= 2 /\ burstFirst < burstLast /\ burstLast - burstFirst < Delay
    /\ ~PendingTimer /\ burstFires = 1

\* C4: the watch loop has not returned while a supervised child is alive.
NoOrphanOnShutdown == pc[Loop] = "returned" => Running = {}

\* C5: no two executions of startProcess are in progress at the same time.
SerializedRestart == Cardinality(Restarting) <= 1

\* C6: a failed spawn does not end the supervisor.
SpawnFailureRecoverable == spawnFailures > 0 => panicked = 0

\* C7: every registered directory matches the inclusions or does not match
\* the exclusions.
AdmissionSound ==
    \A d \in watched : IncludeMatch(d) \/ ~ExcludeMatch(d)

\* a created directory has been walked and registered under inclusion
\* rules, and a visited directory was refused
AdmissionSoundWitness ==
    /\ config.inclusions # <<>>
    /\ DirPkg \in watched
    /\ DirGit \in visited \ watched

\* C8: with inclusion rules, every visited directory that matches the
\* inclusions or does not match the exclusions is registered, unless
\* watcher.Add failed for it.
InclusionOverridesExclusion ==
    config.inclusions # <<>> =>
        \A d \in visited \ addFailed :
            (IncludeMatch(d) \/ ~ExcludeMatch(d)) => d \in watched

\* C9: without inclusion rules a directory is registered exactly when it
\* does not match the exclusions (/w/src is, /w/.git is not), a write to
\* /w/src/main.go arms the debouncer, which calls back at most once, and
\* no event of an entry of /w/.git is received.
EmptyInclusionNeverBlocks ==
    config.inclusions = <<>> =>
        /\ \A d \in visited : (d \in watched \cup addFailed) <=> ~ExcludeMatch(d)
        /\ pc[Loop] \notin {"walk", "fatal"} => DirSrc \in watched /\ DirGit \notin watched
        /\ (lastEvent.kind = "trigger" /\ lastEvent.path = FileMain) => lastEvent.armed
        /\ lastEvent.path # FileGitX
        /\ (lastEvent.kind = "trigger" /\ lastEvent.path = FileMain /\ burstN = 1) =>
               burstFires = (IF PendingTimer THEN 0 ELSE 1)

\* without inclusion rules one write to /w/src/main.go has caused its one
\* restart
EmptyInclusionNeverBlocksWitness ==
    /\ config.inclusions = <<>>
    /\ DirSrc \in watched /\ DirGit \in visited \ watched
    /\ lastEvent = [path |-> FileMain, armed |-> TRUE, kind |-> "trigger"]
    /\ burstN = 1 /\ burstFires = 1

TickRestartsEveryTick ==
    /\ pc[Loop] = "tick_select" => Cardinality(Started) = ticks + 1
    /\ pc[Loop] = "tw_waiting" => cmds[recv[Loop]].os # "running"

\* C12: once the cancellation has made the loop return, the shutdown has
\* run: the current child, when one was started, has been sent the kill
\* signal and has been waited for.
ShutdownKillsCurrentChild ==
    (pc[Loop] = "returned" /\ cmd # 0 /\ cmds[cmd].process)
        => (cmds[cmd].killSent /\ cmds[cmd].waited)

\* C13: a failed registration does not end the program, and after the first
\* walk every admitted directory of the working directory is registered,
\* except those whose own registration failed.
RegistrationFailureSkipped ==
    /\ pc[Loop] # "fatal"
    /\ pc[Loop] # "walk" =>
           \A d \in dirs \ NewDirs :
               (Admit(d) /\ d \notin addFailed) => d \in watched

\* C14: a terminated child that nobody else collects is collected by the
\* reaper: while one waits, a notification for the reaper is pending.
ReaperComplete == orphans > 0 => (sigchld /\ reaper = "waiting")

\* C15: whatever a reap attempt finds, the reaper goes back to waiting for
\* the next notification; it never exits.
ReaperNeverStops == reaper = "waiting"

\* the reaper has collected one child, and has handled a notification that
\* left it nothing to collect, the exit having been collected by cmd.Wait
ReaperNeverStopsWitness ==
    /\ reaper = "waiting" /\ ~sigchld /\ panicked = 0
    /\ \E c \in CmdIds : cmds[c].process /\ ~cmds[c].waited /\ cmds[c].os = "reaped"
    /\ \E c \in CmdIds : cmds[c].waited /\ cmds[c].os = "reaped"

\* C16: the watch loop has returned only if the cancellation was raised or
\* a channel of the watcher was closed, and once the cancellation is raised
\* nothing keeps the loop at its select from returning.  An error received
\* from the watcher changes nothing.
LoopTermination ==
    /\ pc[Loop] = "returned" => (ctxDone \/ closed)
    /\ (Alive /\ pc[Loop] = "select" /\ ctxDone) => ENABLED LoopCancelled

\* the loop has returned at a closed channel, without a cancellation, with
\* a debounce timer pending
LoopTerminationWitness ==
    /\ pc[Loop] = "returned" /\ closed /\ ~ctxDone
    /\ PendingTimer

\* C17: at most one debounce timer is armed and has not fired, and the
\* callback of a timer that was stopped by a later arming never runs.
SinglePendingTimer ==
    /\ Cardinality({t \in TimerIds : timers[t].st = "pending"}) <= 1
    /\ \A t \in TimerIds : timers[t].st = "stopped" => pc[t] = "idle"

\* a second qualifying event has replaced the pending timer, and the new
\* timer alone has fired
SinglePendingTimerWitness ==
    /\ timers[1].st = "stopped" /\ pc[1] = "idle"
    /\ timers[2].st = "fired" /\ pc[2] = "kp_check"

\* C18: the event of a file that carries none of the flags create, write
\* and rename (a remove, a change of permissions) does not arm the
\* debouncer, and the create, write or rename event of a file that passes
\* the test of the extension and the exclusions does.
OnlyTriggerKindsArm ==
    /\ lastEvent.kind = "other" => ~lastEvent.armed
    /\ (lastEvent.kind \in {"trigger", "mixed"}
           /\ ExtensionMatch(lastEvent.path) /\ ~ExcludeMatch(lastEvent.path))
         => lastEvent.armed

\* C19: the event of a path whose os.Stat fails changes neither the
\* debounce timers, nor the registered directories, nor the current child,
\* and leaves the loop at its select.
VanishedDropped ==
    [][(lastEvent'.kind = "vanished" /\ lastEvent' # lastEvent)
          => UNCHANGED <<timers, debouncer, nextTimer, watched, cmd, cmds, pc>>]_vars

\* the event of a vanished path was dropped while a timer was pending and
\* the first child was running
VanishedDroppedWitness ==
    /\ lastEvent.kind = "vanished" /\ ~lastEvent.armed
    /\ PendingTimer /\ pc[Loop] = "select"
    /\ cmd = 1 /\ cmds[1].os = "running"

\* C20: when the program has ended abnormally, by a panic or by log.Fatal,
\* no supervised child is alive.
CleanupOnFailureExit ==
    (panicked # 0 \/ pc[Loop] = "fatal") => Running = {}

\* C21: the callback of a debounce timer is invoked no earlier than one
\* quiet period after the last qualifying event the loop has processed, and
\* the timer invoked is the one that event armed: every qualifying event
\* processed before the invocation has put it off.
QuietPeriodRespected ==
    [][\A t \in TimerIds :
          (timers[t].st = "pending" /\ timers'[t].st = "fired")
              => (t = debouncer /\ now >= burstLast + Delay)]_vars

\* two qualifying events at different instants within one quiet period,
\* and the one callback invoked a quiet period after the second
QuietPeriodRespectedWitness ==
    /\ burstN = 2 /\ burstFirst < burstLast
    /\ debouncer = 2 /\ timers[2].st = "fired" /\ timers[1].st = "stopped"
    /\ now = burstLast + Delay /\ burstFires = 1

\* C22: once the cancellation is raised the tick loop returns in the end
\* (or the program has ended), whatever the loop is doing and however long
\* the current child runs.
TickLoopObservesCancellation ==
    ctxDone ~> (pc[Loop] = "returned" \/ ~Alive)

\* C23: the exit of a child the supervisor has started is collected by the
\* supervisor's own cmd.Wait, never by the reaper.
ReaperLeavesSupervisedChild ==
    \A c \in CmdIds : cmds[c].os = "reaped" => cmds[c].waited

\* C24: once the watch loop has returned at the cancellation, no debounce
\* timer fires its callback and no child is started.
NoStartAfterCancellation ==
    [][(ctxDone /\ pc[Loop] = "returned") =>
          /\ \A t \in TimerIds :
                 timers[t].st = "pending" => timers'[t].st # "fired"
          /\ \A c \in CmdIds : cmds'[c].process => cmds[c].process]_vars

\* C25: the kill signal is sent to the group of a child only while the exit
\* of that child has not been collected, and cmd.Wait is not called on a
\* child that has been waited for already.
KillAndWaitOnlyUncollected ==
    [][\A g \in Goroutines :
          /\ (pc[g] = "kp_kill" /\ pc'[g] = "kp_wait") => cmds[cmd].os # "reaped"
          /\ (pc[g] \in {"kp_waiting", "tw_waiting"} /\ pc'[g] # pc[g])
                 => ~cmds[recv[g]].waited]_vars

\* C26: after a qualifying event a child is started, as the current child,
\* later than the last qualifying event, unless a spawn has failed or the
\* operator has interrupted the program (or the clock's bound is reached
\* before the quiet period of the last event is over).  A child that then
\* exits on its own stays started.
TriggerEventuallyRestarts ==
    (debouncer # 0)
        ~> \/ \E c \in CmdIds : cmds[c].process /\ cmds[c].since = debouncer
           \/ spawnFailures > 0
           \/ ctxDone
           \/ burstLast + Delay > MaxTime

====
